---- MODULE Spec2Model ----
(***************************************************************************)
(* Model of the movement-and-collision core of integer-physics-experiment: *)
(*   - src/src/collision.rs: the swept vertex-vs-edge test,                *)
(*   - src/src/game.rs: movement_step, position_after_movement and the     *)
(*     GameState operations clear / add_entity / init_demo / update.       *)
(* Vectors are pairs <<x, y>> of integers; an edge is [start, end].        *)
(***************************************************************************)
EXTENDS Integers, Sequences, FiniteSets, TLC

VARIABLES
    \* ---- one call of vertex_moving_towards_edge --------------------------
    args,          \* [vertex, vertex_movement, edge, sign] of the call
    ret,           \* the value it returned, or NotCalled
    \* ---- GameState (game.rs:89-97) ---------------------------------------
    player_id,     \* Option<EntityId>: <<>> is None, <<e>> is Some(e)
    next,          \* EntityIdAllocator.next
    position,      \* FnvHashMap<EntityId, Vector2>: a function on a set of ids
    shape,         \* FnvHashMap<EntityId, Shape>
    velocity,      \* FnvHashMap<EntityId, Vector2>
    quad_tree,     \* the broad-phase index: sequence of [aabb, entity_id]
    todo,          \* update: the entries of `velocity` still to be visited
    \* ---- one call of position_after_movement (game.rs:169-221) -----------
    pc,            \* "idle" | "update" | "loop" | "stepped" | "returned"
    id,            \* the entity being moved
    cur_position,  \* local `position`
    movement,      \* local `movement`
    iterations,    \* evaluations of movement_step so far in this call
    reported,      \* contacts the narrow phase reported in this step, in visit order
    step_args,     \* [position, movement] passed to the last evaluation
    step,          \* the MovementStep of the last evaluation
    slide_movement, \* local `slide_movement` of the last Collision arm
    result         \* the Option the call returned: <<>> is None, <<p>> is Some(p)

vmeVars  == <<args, ret>>
gameVars == <<player_id, next, position, shape, velocity, quad_tree, todo>>
callVars == <<pc, id, cur_position, movement, iterations, reported, step_args,
              step, slide_movement, result>>
vars     == <<args, ret, player_id, next, position, shape, velocity, quad_tree, todo,
              pc, id, cur_position, movement, iterations, reported, step_args,
              step, slide_movement, result>>

(***************************************************************************)
(* Bounds of the model.                                                    *)
(***************************************************************************)
MaxVertex == 1     \* the vertex ranges over <<v, -v>>, v \in 0..MaxVertex
MaxMove   == 2     \* vertex_movement coordinates range over -MaxMove..MaxMove
MaxCoord  == 2     \* edge end point coordinates range over -MaxCoord..MaxCoord

(***************************************************************************)
(* Integer and vector arithmetic (PhysicsNum instantiated with i64, as in  *)
(* the tests of collision.rs).                                             *)
(***************************************************************************)
Abs(n)    == IF n < 0 THEN -n ELSE n
Signum(n) == IF n > 0 THEN 1 ELSE IF n < 0 THEN -1 ELSE 0

\* i64 `/`: truncates toward zero.  A zero denominator panics in the
\* program; the callers below record every denominator they use, and the
\* quotient is then irrelevant.
Quot(a, b) ==
    IF b = 0 THEN 0
    ELSE Signum(a) * Signum(b) * (Abs(a) \div Abs(b))

vec2(x, y)     == <<x, y>>
VAdd(v, w)     == <<v[1] + w[1], v[2] + w[2]>>
VSub(v, w)     == <<v[1] - w[1], v[2] - w[2]>>
VScale(v, n)   == <<v[1] * n, v[2] * n>>
dot(v, w)      == v[1] * w[1] + v[2] * w[2]
magnitude2(v)  == dot(v, v)
Zero2          == <<0, 0>>

\* LineSegment
LineSegmentNew(s, e) == [start |-> s, end |-> e]
EdgeVector(e)        == VSub(e.end, e.start)

\* collision.rs:6-8
vector2_cross_product(v, w) == v[1] * w[2] - v[2] * w[1]

\* collision.rs:23-27
reduce_one_off(v) == v - 1
reduce_one(v) == Signum(v) * (Abs(v) - 1)

(***************************************************************************)
(* Results of vertex_moving_towards_edge.  `denominators` is the set of    *)
(* denominators of the divisions the call evaluated.                       *)
(***************************************************************************)
Outcome(k, a, d) == [kind |-> k, allowed |-> a, denominators |-> d]
Err(k)           == Outcome(k, Zero2, {})
StartInsideEdge  == Outcome("StartInsideEdge", Zero2, {})
CollidesWithEdgeAfter(a, d) == Outcome("CollidesWithEdgeAfter", a, d)
NotCalled        == Outcome("NotCalled", Zero2, {})

\* collision.rs:44-49
OrderMultipliersSwapped(a, b) ==
    IF a < b THEN [min |-> b, max |-> a] ELSE [min |-> a, max |-> b]
OrderMultipliers(a, b) ==
    IF a < b THEN [min |-> a, max |-> b] ELSE [min |-> b, max |-> a]

\* collision.rs:56  (the guard of the StartInsideEdge return, colinear branch)
StartsOverlappingStrict(mult_min) == mult_min < 0
StartsOverlapping(mult_min) == mult_min <= 0

\* collision.rs:69-71 and 114-116  (allowed_vertex_movement * sign)
ApplySignDropped(v, sign) == v
ApplySign(v, sign) == VScale(v, sign)

\* collision.rs:38-74
ColinearOrParallel(vertex_to_edge_start, edge_vector, vertex_movement, sign) ==
    IF vector2_cross_product(vertex_to_edge_start, vertex_movement) = 0
    THEN
        LET mult_a_x_movement_len2 == dot(vertex_to_edge_start, vertex_movement)
            mult_b_x_movement_len2 ==
                dot(VAdd(vertex_to_edge_start, edge_vector), vertex_movement)
            mm == OrderMultipliers(mult_a_x_movement_len2, mult_b_x_movement_len2)
            movement_len2 == magnitude2(vertex_movement)
            allowed_movement_x_movement_len2 == VScale(vertex_movement, mm.min)
            x == Quot(allowed_movement_x_movement_len2[1] - 1, movement_len2)
            y == Quot(allowed_movement_x_movement_len2[2] - 1, movement_len2)
        IN  IF mm.max < 0 \/ mm.min > movement_len2
            THEN Err("ColinearNonOverlapping")
            ELSE IF StartsOverlapping(mm.min)
            THEN StartInsideEdge
            ELSE IF mm.min <= movement_len2
            THEN CollidesWithEdgeAfter(ApplySign(vec2(x, y), sign), {movement_len2})
            ELSE Err("ParallelNonColinear")
    ELSE Err("ParallelNonColinear")

\* collision.rs:75-117
NonParallel(cross, vertex_to_edge_start, edge_vector, vertex_movement, sign) ==
    LET cross_abs  == Abs(cross)
        cross_sign == Signum(cross)
        vertex_multiplier_x_cross ==
            vector2_cross_product(vertex_to_edge_start, edge_vector)
        vertex_multiplier_x_cross_abs == vertex_multiplier_x_cross * cross_sign
        edge_multiplier_x_cross ==
            vector2_cross_product(vertex_to_edge_start, vertex_movement)
        edge_multiplier_x_cross_abs == edge_multiplier_x_cross * cross_sign
        movement_to_intersection_point_x_cross ==
            VScale(vertex_movement, vertex_multiplier_x_cross)
        px == movement_to_intersection_point_x_cross[1]
        py == movement_to_intersection_point_x_cross[2]
        x  == IF px = 0 THEN 0 ELSE Quot(reduce_one(px), cross)
        y  == IF py = 0 THEN 0 ELSE Quot(reduce_one(py), cross)
        denominators ==
            (IF px = 0 THEN {} ELSE {cross}) \cup (IF py = 0 THEN {} ELSE {cross})
    IN  IF vertex_multiplier_x_cross_abs < 0
        THEN Err("NonParallelNonIntersecting")
        ELSE IF vertex_multiplier_x_cross_abs > cross_abs
        THEN Err("NonParallelNonIntersecting")
        ELSE IF edge_multiplier_x_cross_abs < 0
        THEN Err("NonParallelNonIntersecting")
        ELSE IF edge_multiplier_x_cross_abs > cross_abs
        THEN Err("NonParallelNonIntersecting")
        ELSE IF vertex_multiplier_x_cross = 0
        THEN StartInsideEdge
        ELSE CollidesWithEdgeAfter(ApplySign(vec2(x, y), sign), denominators)

\* collision.rs:29-118
vertex_moving_towards_edge(vertex, vertex_movement, edge, sign) ==
    LET edge_vector == EdgeVector(edge)
        cross == vector2_cross_product(vertex_movement, edge_vector)
        vertex_to_edge_start == VSub(edge.start, vertex)
    IN  IF cross = 0
        THEN ColinearOrParallel(vertex_to_edge_start, edge_vector, vertex_movement, sign)
        ELSE NonParallel(cross, vertex_to_edge_start, edge_vector, vertex_movement, sign)

(***************************************************************************)
(* The calls of the swept test that are explored: every input within the   *)
(* bounds, and the inputs of the unit tests of collision.rs.               *)
(***************************************************************************)
Call(v, m, e, s) == [vertex |-> v, vertex_movement |-> m, edge |-> e, sign |-> s]

Vertices     == { <<v, 0 - v>> : v \in 0 .. MaxVertex }
MoveCoords   == (0 - MaxMove) .. MaxMove
EdgeCoords   == (0 - MaxCoord) .. MaxCoord

\* args is a call within the bounds
BoundedCall ==
    \E v \in Vertices, mx \in MoveCoords, my \in MoveCoords,
       sx \in EdgeCoords, sy \in EdgeCoords, ex \in EdgeCoords, ey \in EdgeCoords,
       s \in {1, -1} :
        args = Call(v, <<mx, my>>, LineSegmentNew(<<sx, sy>>, <<ex, ey>>), s)

\* collision.rs:132-178 (test::basic, test::parallel, test::perpendicular)
TestCalls ==
    { Call(<<0, 0>>, <<3, 3>>, LineSegmentNew(<<0, 4>>, <<4, 0>>), 1),
      Call(<<0, 0>>, <<3, 3>>, LineSegmentNew(<<0, 5>>, <<5, 0>>), 1),
      Call(<<0, 0>>, <<2, 2>>, LineSegmentNew(<<0, 5>>, <<5, 0>>), 1),
      Call(<<0, 0>>, <<2, 1>>, LineSegmentNew(<<1, 1>>, <<3, 2>>), 1),
      Call(<<0, 0>>, <<2, 1>>, LineSegmentNew(<<4, 2>>, <<8, 4>>), 1),
      Call(<<0, 0>>, <<2, 1>>, LineSegmentNew(<<2, 1>>, <<8, 4>>), 1),
      Call(<<2, 1>>, <<2, 1>>, LineSegmentNew(<<0, 0>>, <<8, 4>>), 1),
      Call(<<0, 0>>, <<10, 0>>, LineSegmentNew(<<5, 5>>, <<5, -5>>), 1),
      Call(<<0, 2>>, <<0, -1>>, LineSegmentNew(<<-1, 1>>, <<1, 1>>), 1) }

(***************************************************************************)
(* Bounds of the resolver's exploration.                                   *)
(***************************************************************************)
MaxMagnitude2 == 1   \* squared distances the narrow phase reports: 0..MaxMagnitude2
ArenaSize     == 1   \* the narrow phase stops the mover inside (0..ArenaSize)^2
MaxTravel     == 2   \* update is explored while the player is within
                     \* MaxTravel * MULTIPLIER of its demo position
MaxResets     == 2   \* init_demo is explored MaxResets + 1 times

\* game.rs:54
MULTIPLIER == 4
\* game.rs:181
MAX_ITERATIONS == 16

(***************************************************************************)
(* Collaborators of game.rs: maps, shapes, bounding boxes, the broad-phase *)
(* index, the running-minimum holder.                                      *)
(***************************************************************************)
EmptyMap == <<>>
MapInsert(m, k, v) ==
    [x \in (DOMAIN m) \cup {k} |-> IF x = k THEN v ELSE m[x]]

Min2(a, b) == IF a < b THEN a ELSE b
Max2(a, b) == IF a < b THEN b ELSE a

\* Shape: an axis aligned rectangle of the given dimensions whose top left
\* corner is the entity's position, or a line segment relative to it.
AxisAlignedRect(dimensions) ==
    [variant |-> "AxisAlignedRect", start |-> Zero2, end |-> dimensions]
LineSegmentShape(s, e) ==
    [variant |-> "LineSegment", start |-> s, end |-> e]

Aabb(lo, hi) == [min |-> lo, max |-> hi]

\* Shape::aabb(position)
ShapeAabb(shp, pos) ==
    LET a == VAdd(pos, shp.start)
        b == VAdd(pos, shp.end)
    IN  Aabb(<<Min2(a[1], b[1]), Min2(a[2], b[2])>>,
             <<Max2(a[1], b[1]), Max2(a[2], b[2])>>)

\* Aabb::union
AabbUnion(p, q) ==
    Aabb(<<Min2(p.min[1], q.min[1]), Min2(p.min[2], q.min[2])>>,
         <<Max2(p.max[1], q.max[1]), Max2(p.max[2], q.max[2])>>)

AabbIntersects(p, q) ==
    /\ p.min[1] <= q.max[1] /\ q.min[1] <= p.max[1]
    /\ p.min[2] <= q.max[2] /\ q.min[2] <= p.max[2]

\* LooseQuadTree::insert
QuadTreeInsert(qt, aabb, entity_id) ==
    Append(qt, [aabb |-> aabb, entity_id |-> entity_id])

\* LooseQuadTree::for_each_intersection: the entries the callback is called for
QuadTreeIntersections(qt, aabb) ==
    { i \in DOMAIN qt : AabbIntersects(qt[i].aabb, aabb) }

\* BestMap::insert_le: keep the new value when the holder is empty or the new
\* key is less than or equal to the held key.  <<>> is the empty holder.
insert_le(best, key, value) ==
    IF best = <<>> THEN <<[key |-> key, value |-> value]>>
    ELSE IF key <= best[1].key THEN <<[key |-> key, value |-> value]>>
    ELSE best

(***************************************************************************)
(* GameState (game.rs:223-264) as a record, so that init_demo can compose  *)
(* clear and add_entity.                                                   *)
(***************************************************************************)
Game(pl, nx, ps, sh, ve, qt) ==
    [player_id |-> pl, next |-> nx, position |-> ps, shape |-> sh,
     velocity |-> ve, quad_tree |-> qt]

TheGame == Game(player_id, next, position, shape, velocity, quad_tree)

GameIs(g) ==
    /\ player_id = g.player_id
    /\ next = g.next
    /\ position = g.position
    /\ shape = g.shape
    /\ velocity = g.velocity
    /\ quad_tree = g.quad_tree
    /\ todo = {}

GameBecomes(g) ==
    /\ player_id' = g.player_id
    /\ next' = g.next
    /\ position' = g.position
    /\ shape' = g.shape
    /\ velocity' = g.velocity
    /\ quad_tree' = g.quad_tree

\* game.rs:224-237
GameStateNew == Game(<<>>, 0, EmptyMap, EmptyMap, EmptyMap, <<>>)

\* game.rs:238-245
clear(g) == Game(<<>>, 0, EmptyMap, EmptyMap, EmptyMap, g.quad_tree)

\* game.rs:246-264; the id returned is g.next
add_entity(g, pos, shp) ==
    Game(g.player_id,
         g.next + 1,
         MapInsert(g.position, g.next, pos),
         MapInsert(g.shape, g.next, shp),
         g.velocity,
         QuadTreeInsert(g.quad_tree, ShapeAabb(shp, pos), g.next))

\* game.rs:265-305; coordinates in the units of the demo's literals
DemoPlayerPosition == <<200, 50>>

init_demo(g) ==
    LET g0 == clear(g)
        player == g0.next
        g1 == add_entity(g0, DemoPlayerPosition, AxisAlignedRect(<<32, 64>>))
        g2 == [g1 EXCEPT !.player_id = <<player>>,
                         !.velocity = MapInsert(g1.velocity, player, Zero2)]
        g3 == add_entity(g2, <<50, 200>>, AxisAlignedRect(<<400, 20>>))
    IN  add_entity(g3, <<20, 20>>, LineSegmentShape(Zero2, <<50, 100>>))

(***************************************************************************)
(* The narrow phase (Shape::movement_collision_test) is a collaborator:    *)
(* for each candidate it reports no contact or one contact                 *)
(* [magnitude2, allowed_movement, line_segment], drawn here from a bounded *)
(* set.  The slide vector is computed in floating point from the contact;  *)
(* it is drawn from SlideMovements.                                        *)
(***************************************************************************)
\* requested movements: every vector with components in {-1, 0, 1}
Movements   == { <<x, y>> : x \in {-1, 0, 1}, y \in {-1, 0, 1} }
\* slide vectors: zero, or one unit along an axis
SlideMovements == { m \in Movements : m[1] = 0 \/ m[2] = 0 }

InArena(p) == p[1] \in 0 .. ArenaSize /\ p[2] \in 0 .. ArenaSize

\* the allowed movements reported for a movement m: none of it, or all of it
Prefixes(m) == { Zero2, m }

Surfaces ==
    { LineSegmentNew(Zero2, <<1, 0>>), LineSegmentNew(Zero2, <<0, 1>>) }

Contacts(pos, m) ==
    { [magnitude2 |-> d, allowed_movement |-> a, line_segment |-> l] :
        d \in 0 .. MaxMagnitude2,
        a \in { b \in Prefixes(m) : InArena(VAdd(pos, b)) },
        l \in Surfaces }

(***************************************************************************)
(* movement_step (game.rs:111-167).                                        *)
(***************************************************************************)
NoStep == [kind |-> "None", allowed_movement |-> Zero2, destination |-> Zero2,
           line_segment |-> LineSegmentNew(Zero2, Zero2)]
NoMovementStep == [NoStep EXCEPT !.kind = "NoMovement"]
NoCollisionStep(destination) ==
    [NoStep EXCEPT !.kind = "NoCollision", !.destination = destination]

\* game.rs:159-163
CollisionStepFullMovement(pos, m, allowed_movement, line_segment) ==
    [kind |-> "Collision", allowed_movement |-> allowed_movement,
     destination |-> VAdd(pos, m), line_segment |-> line_segment]
CollisionStep(pos, m, allowed_movement, line_segment) ==
    [kind |-> "Collision", allowed_movement |-> allowed_movement,
     destination |-> VAdd(pos, allowed_movement), line_segment |-> line_segment]

\* game.rs:133
IsOtherAlways(other_id, e) == TRUE
IsOther(other_id, e) == other_id # e

\* game.rs:124-135: the entries of the index for which the callback reaches
\* the narrow phase
Candidates(e, pos, position_table, shape_table, qt, m) ==
    LET shp        == shape_table[e]
        start_aabb == ShapeAabb(shp, pos)
        end_aabb   == ShapeAabb(shp, VAdd(pos, m))
        aabb       == AabbUnion(start_aabb, end_aabb)
    IN  { i \in QuadTreeIntersections(qt, aabb) :
            /\ IsOther(qt[i].entity_id, e)
            /\ qt[i].entity_id \in DOMAIN position_table
            /\ qt[i].entity_id \in DOMAIN shape_table }

\* The sequences of contacts one traversal of the index can report: the
\* candidates are visited in any order, each at most once, and each visit
\* yields no contact or one of Contacts.
RECURSIVE Reports(_, _, _)
Reports(qt, cands, contacts) ==
    {<<>>} \cup
    UNION { { <<[entity_id |-> qt[i].entity_id, contact |-> c]>> \o r :
                r \in Reports(qt, cands \ {i}, contacts) } :
            i \in cands, c \in contacts }

\* game.rs:123, 142-148: closest_collision after the traversal
RECURSIVE ClosestCollision(_, _)
ClosestCollision(best, rep) ==
    IF rep = <<>> THEN best
    ELSE ClosestCollision(
            insert_le(best, Head(rep).contact.magnitude2,
                      <<Head(rep).contact.allowed_movement,
                        Head(rep).contact.line_segment>>),
            Tail(rep))

\* the traversals possible for a call of movement_step
StepReports(e, pos, position_table, shape_table, qt, m) ==
    IF m = Zero2 \/ e \notin DOMAIN shape_table THEN {<<>>}
    ELSE Reports(qt, Candidates(e, pos, position_table, shape_table, qt, m),
                 Contacts(pos, m))

\* game.rs:111-167, given what the traversal reported
movement_step(e, pos, shape_table, m, rep) ==
    IF m[1] = 0 /\ m[2] = 0 THEN NoMovementStep
    ELSE IF e \in DOMAIN shape_table
    THEN LET closest_collision == ClosestCollision(<<>>, rep)
         IN  IF closest_collision = <<>>
             THEN NoCollisionStep(VAdd(pos, m))
             ELSE CollisionStep(pos, m, closest_collision[1].value[1],
                                closest_collision[1].value[2])
    ELSE NoMovementStep

(***************************************************************************)
(* position_after_movement (game.rs:169-221).                              *)
(***************************************************************************)
ResolverIdle ==
    /\ pc = "idle"
    /\ id = 0
    /\ cur_position = Zero2
    /\ movement = Zero2
    /\ iterations = 0
    /\ reported = <<>>
    /\ step_args = [position |-> Zero2, movement |-> Zero2]
    /\ step = NoStep
    /\ slide_movement = Zero2
    /\ result = <<>>

\* game.rs:176-181: entry, up to the loop
Enter(e, m) ==
    /\ id' = e
    /\ movement' = m
    /\ iterations' = 0
    /\ reported' = <<>>
    /\ step_args' = [position |-> Zero2, movement |-> Zero2]
    /\ step' = NoStep
    /\ slide_movement' = Zero2
    /\ result' = <<>>
    /\ IF e \in DOMAIN position
       THEN cur_position' = position[e] /\ pc' = "loop"
       ELSE cur_position' = Zero2 /\ pc' = "returned"

\* game.rs:182: `for _ in 0..MAX_ITERATIONS`, after n evaluations
LoopContinuesOnceMore(n) == n <= MAX_ITERATIONS
LoopContinues(n) == n < MAX_ITERATIONS

\* game.rs:182-190: the next evaluation of movement_step
Step ==
    /\ pc = "loop"
    /\ \E rep \in StepReports(id, cur_position, position, shape, quad_tree, movement) :
        /\ reported' = rep
        /\ step' = movement_step(id, cur_position, shape, movement, rep)
    /\ step_args' = [position |-> cur_position, movement |-> movement]
    /\ iterations' = iterations + 1
    /\ pc' = "stepped"
    /\ UNCHANGED <<id, cur_position, movement, slide_movement, result,
                   vmeVars, gameVars>>

\* game.rs:190-220: the arm of the match for the step, and the return it
\* leads to; the traversal's locals are dead from here on
Resolve ==
    /\ pc = "stepped"
    /\ reported' = <<>>
    /\ CASE step.kind = "NoMovement" ->
              /\ pc' = "returned"
              /\ result' = <<cur_position>>
              /\ UNCHANGED <<cur_position, movement, slide_movement, step, step_args>>
         [] step.kind = "NoCollision" ->
              /\ pc' = "returned"
              /\ result' = <<step.destination>>
              /\ UNCHANGED <<cur_position, movement, slide_movement, step, step_args>>
         [] step.kind = "Collision" ->
              /\ cur_position' = step.destination
              /\ \E slide \in SlideMovements :
                  /\ slide_movement' = slide
                  /\ IF slide = Zero2
                     THEN /\ pc' = "returned"
                          /\ result' = <<step.destination>>
                          /\ UNCHANGED <<movement, step, step_args>>
                     ELSE /\ movement' = slide
                          /\ IF LoopContinues(iterations)
                             THEN /\ pc' = "loop"
                                  /\ result' = <<>>
                                  /\ step_args' = [position |-> Zero2, movement |-> Zero2]
                                  /\ UNCHANGED step
                             ELSE /\ pc' = "returned"
                                  /\ result' = <<step.destination>>
                                  /\ UNCHANGED <<step, step_args>>
    /\ UNCHANGED <<id, iterations, vmeVars, gameVars>>

(***************************************************************************)
(* Spec: the game.  init_demo and update (game.rs:265-305, 318-334).       *)
(***************************************************************************)
Init ==
    /\ args = Call(Zero2, Zero2, LineSegmentNew(Zero2, Zero2), 1)
    /\ ret = NotCalled
    /\ GameIs(GameStateNew)
    /\ ResolverIdle

InitDemo ==
    /\ pc = "idle"
    /\ Len(quad_tree) <= 3 * MaxResets
    /\ GameBecomes(init_demo(TheGame))
    /\ UNCHANGED <<todo, vmeVars, callVars>>

\* InputModel::movement() (game.rs:36-47): the inputs for which it is zero or
\* a unit vector along an axis
InputMovements == { <<0, 0>>, <<1, 0>>, <<-1, 0>>, <<0, 1>>, <<0, -1>> }

\* game.rs:50-56
update_player_velocity(current_velocity, input_movement) ==
    VScale(input_movement, MULTIPLIER)

PlayerWithinTravel ==
    \A e \in DOMAIN velocity :
        e \in DOMAIN position =>
            /\ Abs(position[e][1] - DemoPlayerPosition[1]) <= MaxTravel * MULTIPLIER
            /\ Abs(position[e][2] - DemoPlayerPosition[2]) <= MaxTravel * MULTIPLIER

\* game.rs:319-323: update panics without a player; the player's velocity is
\* replaced and the iteration over `velocity` begins
UpdateBegin ==
    /\ pc = "idle"
    /\ player_id # <<>>
    /\ PlayerWithinTravel
    /\ \E input_movement \in InputMovements :
        velocity' =
            IF player_id[1] \in DOMAIN velocity
            THEN [velocity EXCEPT ![player_id[1]] =
                    update_player_velocity(velocity[player_id[1]], input_movement)]
            ELSE velocity
    /\ todo' = DOMAIN velocity
    /\ pc' = "update"
    /\ UNCHANGED <<player_id, next, position, shape, quad_tree, vmeVars,
                   id, cur_position, movement, iterations, reported, step_args,
                   step, slide_movement, result>>

\* game.rs:323-330: the call for the next entry of `velocity`
UpdateCall ==
    /\ pc = "update"
    /\ \E e \in todo : Enter(e, velocity[e])
    /\ UNCHANGED <<vmeVars, gameVars>>

\* game.rs:330-332
UpdateInsert ==
    /\ pc = "returned"
    /\ position' = IF result # <<>> THEN MapInsert(position, id, result[1])
                   ELSE position
    /\ todo' = todo \ {id}
    /\ pc' = "update"
    /\ UNCHANGED <<player_id, next, shape, velocity, quad_tree, vmeVars,
                   id, cur_position, movement, iterations, reported, step_args,
                   step, slide_movement, result>>

\* game.rs:333-334: every entry visited
UpdateEnd ==
    /\ pc = "update"
    /\ todo = {}
    /\ pc' = "idle"
    /\ UNCHANGED <<vmeVars, gameVars, id, cur_position, movement, iterations,
                   reported, step_args, step, slide_movement, result>>

Next ==
    \/ InitDemo
    \/ UpdateBegin
    \/ UpdateCall
    \/ Step
    \/ Resolve
    \/ UpdateInsert
    \/ UpdateEnd

Spec == Init /\ [][Next]_vars

(***************************************************************************)
(* SpecVME: vertex_moving_towards_edge applied to each explored call.      *)
(***************************************************************************)
InitVME ==
    /\ BoundedCall \/ args \in TestCalls
    /\ ret = NotCalled
    /\ GameIs(GameStateNew)
    /\ ResolverIdle

Evaluate ==
    /\ ret = NotCalled
    /\ ret' = vertex_moving_towards_edge(args.vertex, args.vertex_movement,
                                         args.edge, args.sign)
    /\ UNCHANGED <<args, gameVars, callVars>>

NextVME == Evaluate

SpecVME == InitVME /\ [][NextVME]_vars

\* Quantities of the returned call that the claims speak of.
Returned       == ret.kind # "NotCalled"
ArgCross       == vector2_cross_product(args.vertex_movement, EdgeVector(args.edge))
ArgToStart     == VSub(args.edge.start, args.vertex)
ArgToEnd       == VSub(args.edge.end, args.vertex)
ArgVertexMul   == vector2_cross_product(ArgToStart, EdgeVector(args.edge))
ArgEdgeMul     == vector2_cross_product(ArgToStart, args.vertex_movement)
ArgLen2        == magnitude2(args.vertex_movement)
ArgDotStart    == dot(ArgToStart, args.vertex_movement)
ArgDotEnd      == dot(ArgToEnd, args.vertex_movement)
ArgMinMul      == IF ArgDotStart <= ArgDotEnd THEN ArgDotStart ELSE ArgDotEnd
ArgMaxMul      == IF ArgDotStart <= ArgDotEnd THEN ArgDotEnd ELSE ArgDotStart

\* C1: with sign = 1 and nonzero movement, a returned CollidesWithEdgeAfter(allowed)
\* has, on each axis, a component that is zero or of the movement component's
\* sign and no larger in absolute value, and |allowed|^2 < |movement|^2.
C1_AllowedIsShorterPrefix ==
    ( /\ Returned
      /\ args.sign = 1
      /\ args.vertex_movement # Zero2
      /\ ret.kind = "CollidesWithEdgeAfter" )
    => /\ \A i \in {1, 2} :
            /\ ret.allowed[i] = 0
               \/ Signum(ret.allowed[i]) = Signum(args.vertex_movement[i])
            /\ Abs(ret.allowed[i]) <= Abs(args.vertex_movement[i])
       /\ magnitude2(ret.allowed) < magnitude2(args.vertex_movement)

\* C2: for cross # 0 the result is NonParallelNonIntersecting exactly when
\* vertexMul*sgn(cross) or edgeMul*sgn(cross) is outside [0, |cross|]; otherwise
\* StartInsideEdge exactly when vertexMul = 0; otherwise CollidesWithEdgeAfter(a)
\* with a_axis = 0 if p = 0 and sign * (sgn(p) * (|p| - 1) / cross) otherwise,
\* p = movement_axis * vertexMul; the two worked examples give (1,1) and (4,0).
C2_ExpectedAxis(i) ==
    LET p == args.vertex_movement[i] * ArgVertexMul
    IN  IF p = 0 THEN 0
        ELSE args.sign * Quot(Signum(p) * (Abs(p) - 1), ArgCross)

C2_OutOfRange ==
    \/ ArgVertexMul * Signum(ArgCross) \notin 0 .. Abs(ArgCross)
    \/ ArgEdgeMul * Signum(ArgCross) \notin 0 .. Abs(ArgCross)

C2_NonParallelResult ==
    /\ (Returned /\ ArgCross # 0) =>
        /\ (ret.kind = "NonParallelNonIntersecting") <=> C2_OutOfRange
        /\ ~C2_OutOfRange =>
              /\ (ret.kind = "StartInsideEdge") <=> (ArgVertexMul = 0)
              /\ ArgVertexMul # 0 =>
                    /\ ret.kind = "CollidesWithEdgeAfter"
                    /\ ret.allowed = <<C2_ExpectedAxis(1), C2_ExpectedAxis(2)>>
    /\ (Returned /\ args = Call(<<0, 0>>, <<3, 3>>, LineSegmentNew(<<0, 4>>, <<4, 0>>), 1))
          => ret.kind = "CollidesWithEdgeAfter" /\ ret.allowed = <<1, 1>>
    /\ (Returned /\ args = Call(<<0, 0>>, <<10, 0>>, LineSegmentNew(<<5, 5>>, <<5, -5>>), 1))
          => ret.kind = "CollidesWithEdgeAfter" /\ ret.allowed = <<4, 0>>

\* a non-parallel collision in which a product movement_axis * vertexMul is negative
C2_Witness ==
    /\ Returned
    /\ ArgCross # 0
    /\ ret.kind = "CollidesWithEdgeAfter"
    /\ args.vertex_movement[1] * ArgVertexMul < -1
    /\ ret.allowed # Zero2

\* C3: for cross = 0 the result is ParallelNonColinear iff
\* cross(edgeStart - vertex, movement) # 0; when that is 0 it is
\* ColinearNonOverlapping exactly when maxMul < 0 or minMul > |movement|^2,
\* otherwise StartInsideEdge exactly when minMul <= 0, otherwise a
\* CollidesWithEdgeAfter value.
C3_ParallelClassification ==
    (Returned /\ ArgCross = 0) =>
        /\ (ret.kind = "ParallelNonColinear") <=> (ArgEdgeMul # 0)
        /\ ArgEdgeMul = 0 =>
            LET apart == ArgMaxMul < 0 \/ ArgMinMul > ArgLen2
            IN  /\ (ret.kind = "ColinearNonOverlapping") <=> apart
                /\ ~apart =>
                      /\ (ret.kind = "StartInsideEdge") <=> (ArgMinMul <= 0)
                      /\ ArgMinMul > 0 => ret.kind = "CollidesWithEdgeAfter"

\* a colinear call whose edge lies ahead of the vertex, within the movement
C3_Witness ==
    /\ Returned
    /\ ArgCross = 0
    /\ ArgEdgeMul = 0
    /\ ArgDotStart > ArgDotEnd
    /\ ArgMinMul > 0
    /\ ret.kind = "CollidesWithEdgeAfter"

\* C4: no call, zero movement and zero-length edges included, evaluates a
\* division by zero: every denominator used is nonzero; the colinear branch
\* divides only by |movement|^2 > 0 and the non-parallel one only by cross # 0.
C4_NoZeroDenominator ==
    Returned =>
        /\ 0 \notin ret.denominators
        /\ ret.denominators \subseteq
              (IF ArgCross = 0 THEN {ArgLen2} ELSE {ArgCross})

\* a zero-length edge on the vertex's path: the colinear division is evaluated
C4_Witness ==
    /\ Returned
    /\ args.edge.start = args.edge.end
    /\ ret.denominators = {ArgLen2}

\* C5: the call with the sign negated returns the same variant, and for
\* CollidesWithEdgeAfter the component-wise negated allowed movement.
C5_SignSymmetry ==
    Returned =>
        LET other == vertex_moving_towards_edge(args.vertex, args.vertex_movement,
                                                args.edge, 0 - args.sign)
        IN  /\ other.kind = ret.kind
            /\ other.allowed = <<0 - ret.allowed[1], 0 - ret.allowed[2]>>

C5_Witness ==
    /\ Returned
    /\ args.sign = -1
    /\ ret.kind = "CollidesWithEdgeAfter"
    /\ ret.allowed[1] # 0
    /\ ret.allowed[2] # 0

\* C8: in the colinear branch (cross = 0, vertex on the edge's line,
\* 0 < minMul <= |movement|^2) the allowed movement is, per axis,
\* movement_axis * (minMul - 1) / |movement|^2 (truncating) times sign.
C8_ColinearScaledBackoff ==
    ( /\ Returned
      /\ ArgCross = 0
      /\ ArgEdgeMul = 0
      /\ 0 < ArgMinMul
      /\ ArgMinMul <= ArgLen2 )
    => /\ ret.kind = "CollidesWithEdgeAfter"
       /\ \A i \in {1, 2} :
            ret.allowed[i] =
                args.sign * Quot(args.vertex_movement[i] * (ArgMinMul - 1), ArgLen2)

(***************************************************************************)
(* SpecResolver: position_after_movement called on worlds built by         *)
(* add_entity from the empty game: a 1x1 mover and any of three obstacles. *)
(***************************************************************************)
MoverStarts == { <<0, 0>> }

Obstacles ==
    << [position |-> <<2, 0>>, shape |-> LineSegmentShape(Zero2, <<0, 2>>)],
       [position |-> <<0, 2>>, shape |-> LineSegmentShape(Zero2, <<2, 0>>)],
       [position |-> <<9, 9>>, shape |-> AxisAlignedRect(<<1, 1>>)] >>

RECURSIVE AddObstacles(_, _, _)
AddObstacles(g, chosen, k) ==
    IF k > Len(Obstacles) THEN g
    ELSE AddObstacles(
            IF k \in chosen
            THEN add_entity(g, Obstacles[k].position, Obstacles[k].shape)
            ELSE g,
            chosen, k + 1)

Worlds ==
    { AddObstacles(add_entity(GameStateNew, start, AxisAlignedRect(<<1, 1>>)),
                   chosen, 1) :
        start \in MoverStarts, chosen \in SUBSET (DOMAIN Obstacles) }

InitResolver ==
    /\ args = Call(Zero2, Zero2, LineSegmentNew(Zero2, Zero2), 1)
    /\ ret = NotCalled
    /\ \E g \in Worlds : GameIs(g)
    /\ ResolverIdle

\* a call for the mover (entity 0) or for an id that was never allocated
CallPositionAfterMovement ==
    /\ pc \in {"idle", "returned"}
    /\ \E e \in {0, next}, m \in Movements : Enter(e, m)
    /\ UNCHANGED <<vmeVars, gameVars>>

NextResolver ==
    \/ CallPositionAfterMovement
    \/ Step
    \/ Resolve

SpecResolver == InitResolver /\ [][NextResolver]_vars

\* C6: a call for an entity with a recorded position returns a position
\* after at most MAX_ITERATIONS evaluations of movement_step: while it loops
\* fewer than 16 were made, every one of them a Collision with a nonzero
\* slide; it returns on the first NoMovement or NoCollision step, or on a
\* zero slide, or with the 16th evaluation, and after a Collision step it
\* returns that step's destination.
C6_BoundedResolution ==
    /\ iterations <= MAX_ITERATIONS
    /\ pc = "loop" =>
        /\ iterations < MAX_ITERATIONS
        /\ iterations > 0 =>
              /\ step.kind = "Collision"
              /\ slide_movement # Zero2
              /\ movement = slide_movement
              /\ cur_position = step.destination
    /\ (pc = "returned" /\ id \in DOMAIN position) =>
        /\ iterations >= 1
        /\ Len(result) = 1
        /\ \/ step.kind = "NoMovement" /\ result[1] = step_args.position
           \/ step.kind = "NoCollision" /\ result[1] = step.destination
           \/ /\ step.kind = "Collision"
              /\ result[1] = step.destination
              /\ slide_movement = Zero2 \/ iterations = MAX_ITERATIONS

\* the cap is reached: 16 Collision steps, the last one moving the entity
C6_Witness ==
    /\ pc = "returned"
    /\ iterations = MAX_ITERATIONS
    /\ step.kind = "Collision"
    /\ slide_movement # Zero2
    /\ step.allowed_movement # Zero2
    /\ result = <<step.destination>>

\* C7: when only the mover is registered (tables and index hold nothing
\* else), a call with nonzero movement ends in a NoCollision step on its
\* first sub-step and returns position + movement.
OnlyMoverRegistered ==
    /\ DOMAIN position = {id}
    /\ DOMAIN shape = {id}
    /\ \A i \in DOMAIN quad_tree : quad_tree[i].entity_id = id

C7_OpenSpace ==
    /\ (pc = "loop" /\ OnlyMoverRegistered) => iterations = 0
    /\ (pc = "stepped" /\ OnlyMoverRegistered /\ movement # Zero2) =>
        step = NoCollisionStep(VAdd(position[id], movement))
    /\ (pc = "returned" /\ OnlyMoverRegistered /\ movement # Zero2) =>
        /\ iterations = 1
        /\ step.kind = "NoCollision"
        /\ result = <<VAdd(position[id], movement)>>

C7_Witness ==
    /\ pc = "returned"
    /\ OnlyMoverRegistered
    /\ movement # Zero2
    /\ quad_tree # <<>>
    /\ result = <<VAdd(position[id], movement)>>

\* C9: in a step with nonzero movement in which some candidate yields a
\* contact, every contact comes from a candidate (another entity, in the
\* index with a box meeting the swept box, with a position and a shape), the
\* step is Collision with the allowed movement and edge of the last reported
\* contact among those of minimal squared distance, and destination =
\* position + that allowed movement.
C9_SweptBox ==
    AabbUnion(ShapeAabb(shape[id], step_args.position),
              ShapeAabb(shape[id], VAdd(step_args.position, step_args.movement)))

C9_IsCandidate(e) ==
    /\ e # id
    /\ e \in DOMAIN position
    /\ e \in DOMAIN shape
    /\ \E i \in DOMAIN quad_tree :
          quad_tree[i].entity_id = e /\ AabbIntersects(quad_tree[i].aabb, C9_SweptBox)

C9_ClosestContactWins ==
    (pc = "stepped" /\ reported # <<>>) =>
        /\ step_args.movement # Zero2
        /\ \A k \in DOMAIN reported : C9_IsCandidate(reported[k].entity_id)
        /\ step.kind = "Collision"
        /\ \E k \in DOMAIN reported :
            /\ \A j \in DOMAIN reported :
                  reported[k].contact.magnitude2 <= reported[j].contact.magnitude2
            /\ \A j \in DOMAIN reported :
                  j > k => reported[k].contact.magnitude2 < reported[j].contact.magnitude2
            /\ step.allowed_movement = reported[k].contact.allowed_movement
            /\ step.line_segment = reported[k].contact.line_segment
            /\ step.destination =
                  VAdd(step_args.position, reported[k].contact.allowed_movement)

\* two contacts at the same distance, differing in allowed movement and edge
C9_Witness ==
    /\ pc = "stepped"
    /\ Len(reported) = 2
    /\ reported[1].contact.magnitude2 = reported[2].contact.magnitude2
    /\ reported[1].contact.allowed_movement # reported[2].contact.allowed_movement
    /\ reported[1].contact.line_segment # reported[2].contact.line_segment
    /\ step.kind = "Collision"
    /\ step.allowed_movement = reported[2].contact.allowed_movement
    /\ step.allowed_movement # Zero2

\* C10: in every state reached by init_demo and update calls the index holds
\* exactly one entry for each entity with a recorded position, whose box is
\* the AABB of the entity's shape at its recorded position, and no other entry.
C10_IndexMatchesPositions ==
    /\ \A e \in DOMAIN position :
          /\ Cardinality({ i \in DOMAIN quad_tree : quad_tree[i].entity_id = e }) = 1
          /\ \A i \in DOMAIN quad_tree :
                quad_tree[i].entity_id = e =>
                    quad_tree[i].aabb = ShapeAabb(shape[e], position[e])
    /\ \A i \in DOMAIN quad_tree : quad_tree[i].entity_id \in DOMAIN position

====
